---- MODULE Spec2Model ----
(***************************************************************************)
(* post-init, the uvinit command: the directory walker, the detector of    *)
(* project.dynamic, the transformer of pyproject.toml and run_uvinit,      *)
(* which composes them (src/src/commands/uvinit.rs).                       *)
(*                                                                         *)
(* A manifest file is a sequence of lines.  A line is a table header       *)
(* ([a.b]), a key/value line, a trivia line (a comment or a blank line),   *)
(* or a line that is no TOML.  The toml_edit document is a tree of items:  *)
(* a table keeps its entries in insertion order, its `implicit` flag, its  *)
(* position among the headers of the file and the trivia lines in front of *)
(* it.  Parse and Render are str::parse::<DocumentMut> and                 *)
(* DocumentMut::to_string at this granularity.                             *)
(***************************************************************************)
EXTENDS Integers, Sequences, FiniteSets, TLC

(***************************************************************************)
(* Bounds of the model.                                                    *)
(***************************************************************************)
\* keys of a generated [project] table
MaxKeys == 3
\* runs of the transformer on one file
MaxRuns == 3
\* characters of the confirmation line
MaxInputLen == 2

(***************************************************************************)
(* Values and lines of a manifest.                                         *)
(***************************************************************************)
NoPos == -1
\* the decor of a table made by toml_edit::table(): a blank line in front of
\* its header unless it is the first header written
DefaultDecor == -1

Str(x) == [t |-> "str", s |-> x, el |-> <<>>, imp |-> FALSE, pos |-> NoPos, pre |-> 0, kv |-> <<>>]
Arr(xs) == [t |-> "arr", s |-> "", el |-> xs, imp |-> FALSE, pos |-> NoPos, pre |-> 0, kv |-> <<>>]
\* an inline table { k1 = .., k2 = .. }: a value, not a table
Inl(ks) == [t |-> "inl", s |-> "", el |-> ks, imp |-> FALSE, pos |-> NoPos, pre |-> 0, kv |-> <<>>]
\* toml_edit::table()
NewTable == [t |-> "tbl", s |-> "", el |-> <<>>, imp |-> FALSE, pos |-> NoPos, pre |-> DefaultDecor, kv |-> <<>>]

Hdr(path) == [h |-> "hdr", p |-> path, k |-> "", v |-> Str("")]
KV(key, val) == [h |-> "kv", p |-> <<>>, k |-> key, v |-> val]
Trivia == [h |-> "cmt", p |-> <<>>, k |-> "", v |-> Str("")]
Bad == [h |-> "bad", p |-> <<>>, k |-> "", v |-> Str("")]

(***************************************************************************)
(* toml_edit::Table (an IndexMap in insertion order).                      *)
(***************************************************************************)
contains_key(tbl, key) == \E i \in 1..Len(tbl.kv) : tbl.kv[i].k = key

IndexOf(tbl, key) == CHOOSE i \in 1..Len(tbl.kv) : tbl.kv[i].k = key

get(tbl, key) == tbl.kv[IndexOf(tbl, key)].v

\* Table::insert: a vacant key is appended; an occupied key keeps its place,
\* its decor is reset and its value replaced
insert(tbl, key, item) ==
    IF contains_key(tbl, key)
    THEN [tbl EXCEPT !.kv[IndexOf(tbl, key)] = [k |-> key, v |-> item]]
    ELSE [tbl EXCEPT !.kv = Append(@, [k |-> key, v |-> item])]

\* get_mut followed by an assignment through the reference: the entry keeps
\* its place
set(tbl, key, item) == [tbl EXCEPT !.kv[IndexOf(tbl, key)].v = item]

\* Table::remove (shift_remove: the other entries keep their order)
remove(tbl, key) == [tbl EXCEPT !.kv = SelectSeq(@, LAMBDA e : e.k # key)]

as_table(item) == item.t = "tbl"

as_array(item) == item.t = "arr"

set_implicit(tbl) == [tbl EXCEPT !.imp = TRUE]

Contains(seq, x) == \E i \in 1..Len(seq) : seq[i] = x

(***************************************************************************)
(* str::parse::<DocumentMut>                                               *)
(***************************************************************************)
EmptyRoot == [t |-> "tbl", s |-> "", el |-> <<>>, imp |-> FALSE, pos |-> 0, pre |-> 0, kv |-> <<>>]

RECURSIVE TableAt(_, _)
TableAt(tbl, path) ==
    IF path = <<>> THEN tbl ELSE TableAt(get(tbl, Head(path)), Tail(path))

\* a header [path] can be opened: no step of the path is a value, and the
\* table it names was not defined before (an implicit one may be reopened)
RECURSIVE CanOpen(_, _)
CanOpen(tbl, path) ==
    IF ~contains_key(tbl, Head(path)) THEN TRUE
    ELSE LET child == get(tbl, Head(path)) IN
         /\ as_table(child)
         /\ IF Len(path) = 1 THEN child.imp ELSE CanOpen(child, Tail(path))

\* the header [path]: the tables on the way are created implicit, the table
\* itself is taken out of its parent if it was implicit, gets the header's
\* decor and position, and is put at the end of its parent's entries
RECURSIVE OpenTable(_, _, _, _)
OpenTable(tbl, path, position, decor) ==
    LET key == Head(path) IN
    IF Len(path) = 1
    THEN LET old == IF contains_key(tbl, key) THEN get(tbl, key) ELSE NewTable
             new == [old EXCEPT !.imp = FALSE, !.pos = position, !.pre = decor]
         IN  insert(remove(tbl, key), key, new)
    ELSE LET child == IF contains_key(tbl, key)
                      THEN get(tbl, key)
                      ELSE [NewTable EXCEPT !.imp = TRUE, !.pre = 0]
             tbl1 == IF contains_key(tbl, key) THEN tbl ELSE insert(tbl, key, child)
         IN  set(tbl1, key, OpenTable(child, Tail(path), position, decor))

\* a key/value line in the table at `path`
RECURSIVE AddValue(_, _, _, _)
AddValue(tbl, path, key, item) ==
    IF path = <<>> THEN insert(tbl, key, item)
    ELSE set(tbl, Head(path), AddValue(get(tbl, Head(path)), Tail(path), key, item))

ParseStart == [ok |-> TRUE, doc |-> EmptyRoot, cur |-> <<>>, pend |-> 0, npos |-> 0]

ParseLine(st, line) ==
    IF ~st.ok THEN st
    ELSE IF line.h = "cmt" THEN [st EXCEPT !.pend = @ + 1]
    ELSE IF line.h = "bad" THEN [st EXCEPT !.ok = FALSE]
    ELSE IF line.h = "hdr"
    THEN IF CanOpen(st.doc, line.p)
         THEN [st EXCEPT !.doc = OpenTable(@, line.p, st.npos + 1, st.pend),
                         !.cur = line.p, !.pend = 0, !.npos = @ + 1]
         ELSE [st EXCEPT !.ok = FALSE]
    ELSE IF contains_key(TableAt(st.doc, st.cur), line.k)
         THEN [st EXCEPT !.ok = FALSE]
         ELSE [st EXCEPT !.doc = AddValue(@, st.cur, line.k, [line.v EXCEPT !.pre = st.pend]),
                         !.pend = 0]

RECURSIVE ParseFrom(_, _)
ParseFrom(st, lines) ==
    IF lines = <<>> THEN st ELSE ParseFrom(ParseLine(st, Head(lines)), Tail(lines))

\* [ok, doc]: the trivia after the last entry is the document's trailing()
\* (kept in the root's pre)
Parse(text) ==
    LET st == ParseFrom(ParseStart, text)
    IN  [ok |-> st.ok, doc |-> [st.doc EXCEPT !.pre = st.pend]]

(***************************************************************************)
(* DocumentMut::to_string                                                  *)
(***************************************************************************)
RECURSIVE TriviaLines(_)
TriviaLines(n) == IF n <= 0 THEN <<>> ELSE <<Trivia>> \o TriviaLines(n - 1)

\* the entries of a table that are values
get_values(tbl) == SelectSeq(tbl.kv, LAMBDA e : ~as_table(e.v))

\* visit_nested_tables: the table, then the tables under it, depth first in
\* entry order; a table without a position takes the last position seen
RECURSIVE Visit(_, _, _, _)
Visit(tbl, path, i, acc) ==
    IF i = 0
    THEN LET last_position == IF tbl.pos # NoPos THEN tbl.pos
                              ELSE IF acc = <<>> THEN 0 ELSE acc[Len(acc)].id
         IN  Visit(tbl, path, 1, Append(acc, [id |-> last_position, path |-> path, tbl |-> tbl]))
    ELSE IF i > Len(tbl.kv) THEN acc
    ELSE LET e == tbl.kv[i] IN
         IF as_table(e.v)
         THEN Visit(tbl, path, i + 1, Visit(e.v, Append(path, e.k), 0, acc))
         ELSE Visit(tbl, path, i + 1, acc)

\* tables.sort_by_key(|id| ..): stable
RECURSIVE SortByPosition(_, _, _)
SortByPosition(tables, id, top) ==
    IF id > top THEN <<>>
    ELSE SelectSeq(tables, LAMBDA x : x.id = id) \o SortByPosition(tables, id + 1, top)

RECURSIVE ValueLines(_, _)
ValueLines(entries, i) ==
    IF i > Len(entries) THEN <<>>
    ELSE TriviaLines(entries[i].v.pre)
         \o <<KV(entries[i].k, [entries[i].v EXCEPT !.pre = 0])>>
         \o ValueLines(entries, i + 1)

\* visit_table for each table in order; `first` is first_table
RECURSIVE TableLines(_, _, _)
TableLines(tables, i, first) ==
    IF i > Len(tables) THEN <<>>
    ELSE LET x == tables[i]
             children == get_values(x.tbl)
             visible == ~(x.tbl.imp /\ children = <<>>)
         IN  IF x.path = <<>>
             THEN ValueLines(children, 1)
                  \o TableLines(tables, i + 1, first /\ children = <<>>)
             ELSE IF visible
             THEN (IF x.tbl.pre = DefaultDecor
                   THEN (IF first THEN <<>> ELSE <<Trivia>>)
                   ELSE TriviaLines(x.tbl.pre))
                  \o <<Hdr(x.path)>>
                  \o ValueLines(children, 1)
                  \o TableLines(tables, i + 1, FALSE)
             ELSE TableLines(tables, i + 1, first)

RECURSIVE MaxId(_, _)
MaxId(tables, i) ==
    IF i > Len(tables) THEN 0
    ELSE LET m == MaxId(tables, i + 1) IN IF tables[i].id > m THEN tables[i].id ELSE m

Render(doc) ==
    LET tables == Visit(doc, <<>>, 0, <<>>)
        sorted == SortByPosition(tables, 0, MaxId(tables, 1))
    IN  TableLines(sorted, 1, TRUE) \o TriviaLines(doc.pre)

(***************************************************************************)
(* UvinitConfig and the transformer, modify_pyproject_toml.                *)
(***************************************************************************)
REPLACE_KEY_VER == "version"
REPLACE_KEY_DYN == "dynamic"

\* the comparator without its exception for version: dynamic sorts in front
\* of every key
compare_without_version(key1, key2) ==
    IF key1 = "dynamic" THEN "Less" ELSE "Equal"

\* the comparator handed to sort_values_by
compare(key1, key2) ==
    IF key1 = REPLACE_KEY_DYN /\ key2 # REPLACE_KEY_VER THEN "Less" ELSE "Equal"

\* slice::sort_by on at most 20 entries is insertion_sort_shift_left: each
\* entry in turn moves left while it compares Less than its left neighbour
RECURSIVE insert_tail(_, _)
insert_tail(entries, j) ==
    IF j > 1 /\ compare(entries[j].k, entries[j - 1].k) = "Less"
    THEN insert_tail([entries EXCEPT ![j - 1] = entries[j], ![j] = entries[j - 1]], j - 1)
    ELSE entries

RECURSIVE insertion_sort_shift_left(_, _)
insertion_sort_shift_left(entries, i) ==
    IF i > Len(entries) THEN entries
    ELSE insertion_sort_shift_left(insert_tail(entries, i), i + 1)

sort_values_by(tbl) == [tbl EXCEPT !.kv = insertion_sort_shift_left(@, 2)]

\* edit 1 merging into a dynamic array that is there: "version" is pushed
\* when the array lacks it and the other entries stay
edit_dynamic_version_merging(doc, config) ==
    IF /\ config.enable_dynamic_version
       /\ contains_key(doc, "project")
       /\ as_table(get(doc, "project"))
    THEN LET project_table == get(doc, "project")
             merged == IF /\ contains_key(project_table, "dynamic")
                          /\ as_array(get(project_table, "dynamic"))
                       THEN IF Contains(get(project_table, "dynamic").el, "version")
                            THEN get(project_table, "dynamic").el
                            ELSE Append(get(project_table, "dynamic").el, "version")
                       ELSE <<"version">>
             inserted == insert(project_table, "dynamic", Arr(merged))
         IN  set(doc, "project", remove(sort_values_by(inserted), "version"))
    ELSE doc

\* 1. Replace project.version with project.dynamic = ["version"]
edit_dynamic_version(doc, config) ==
    IF /\ config.enable_dynamic_version
       /\ contains_key(doc, "project")
       /\ as_table(get(doc, "project"))
    THEN LET project_table == get(doc, "project")
             inserted == insert(project_table, "dynamic", Arr(<<"version">>))
         IN  set(doc, "project", remove(sort_values_by(inserted), "version"))
    ELSE doc

\* the pushes without the test for a string that is already there
push_all(array, to_add) == array \o to_add

\* for x in to_add { if !array.iter().any(|v| v == x) { array.push(x) } }
RECURSIVE push_missing(_, _)
push_missing(array, to_add) ==
    IF to_add = <<>> THEN array
    ELSE push_missing(IF Contains(array, Head(to_add)) THEN array
                      ELSE Append(array, Head(to_add)),
                      Tail(to_add))

\* table.entry(key).or_insert(value(Array::new())), then the pushes if the
\* entry is an array
extend_array_entry(tbl, key, to_add) ==
    LET tbl1 == IF contains_key(tbl, key) THEN tbl ELSE insert(tbl, key, Arr(<<>>))
        entry == get(tbl1, key)
    IN  IF as_array(entry)
        THEN set(tbl1, key, [entry EXCEPT !.el = push_missing(@, to_add)])
        ELSE tbl1

\* the additional requirements pushed in front of hatch-vcs
requires_to_add_list_first(config) ==
    config.additional_requires \o (IF config.add_hatch_vcs THEN <<"hatch-vcs">> ELSE <<>>)

requires_to_add(config) ==
    (IF config.add_hatch_vcs THEN <<"hatch-vcs">> ELSE <<>>) \o config.additional_requires

\* edit 2 without its gate on the settings
edit_build_requires_ungated(doc, config) ==
    IF /\ contains_key(doc, "build-system")
       /\ as_table(get(doc, "build-system"))
    THEN set(doc, "build-system",
             extend_array_entry(get(doc, "build-system"), "requires", requires_to_add(config)))
    ELSE doc

\* edit 2 with the precondition of edit 5: the table is created when missing
edit_build_requires_creating(doc, config) ==
    IF config.add_hatch_vcs \/ config.additional_requires # <<>>
    THEN LET doc1 == (IF contains_key(doc, "build-system") THEN doc ELSE insert(doc, "build-system", NewTable)) IN
         IF as_table(get(doc1, "build-system"))
         THEN set(doc1, "build-system",
                  extend_array_entry(get(doc1, "build-system"), "requires", requires_to_add(config)))
         ELSE doc1
    ELSE doc

\* 2. Add to build-system.requires
edit_build_requires(doc, config) ==
    IF /\ config.add_hatch_vcs \/ config.additional_requires # <<>>
       /\ contains_key(doc, "build-system")
       /\ as_table(get(doc, "build-system"))
    THEN set(doc, "build-system",
             extend_array_entry(get(doc, "build-system"), "requires", requires_to_add(config)))
    ELSE doc

\* if tbl.get(key).is_none() { tbl.insert(key, table()) }
ensure_table(tbl, key) ==
    IF contains_key(tbl, key) THEN tbl ELSE insert(tbl, key, NewTable)

\* set_tool_value with entry(key).or_insert in place of insert: a value that
\* is there is kept
set_tool_value_or_insert(doc, section, leaf, key, val) ==
    LET doc1 == ensure_table(doc, "tool")
        tool == get(doc1, "tool")
    IN  IF ~as_table(tool) THEN doc1
        ELSE LET tool1 == ensure_table(set_implicit(tool), section)
                 sec == get(tool1, section)
             IN  IF ~as_table(sec) THEN set(doc1, "tool", tool1)
                 ELSE LET sec1 == ensure_table(set_implicit(sec), leaf)
                          lf == get(sec1, leaf)
                          lf1 == IF as_table(lf) /\ ~contains_key(lf, key)
                                 THEN insert(set_implicit(lf), key, Str(val))
                                 ELSE lf
                      IN  set(doc1, "tool", set(tool1, section, set(sec1, leaf, lf1)))

\* tool.<section>.<leaf>.<key> = "<val>": every table on the way is created
\* when missing and marked implicit; nothing is done below an entry that is
\* no table
set_tool_value(doc, section, leaf, key, val) ==
    LET doc1 == ensure_table(doc, "tool")
        tool == get(doc1, "tool")
    IN  IF ~as_table(tool) THEN doc1
        ELSE LET tool1 == ensure_table(set_implicit(tool), section)
                 sec == get(tool1, section)
             IN  IF ~as_table(sec) THEN set(doc1, "tool", tool1)
                 ELSE LET sec1 == ensure_table(set_implicit(sec), leaf)
                          lf == get(sec1, leaf)
                          lf1 == IF as_table(lf)
                                 THEN insert(set_implicit(lf), key, Str(val))
                                 ELSE lf
                      IN  set(doc1, "tool", set(tool1, section, set(sec1, leaf, lf1)))

\* 3. Add tool.hatch.version.source = "vcs"
edit_hatch_version(doc, config) ==
    IF config.enable_dynamic_version
    THEN set_tool_value(doc, "hatch", "version", "source", "vcs")
    ELSE doc

\* 4. Add tool.pytest.ini_options.asyncio_mode = "auto"
edit_pytest_asyncio(doc, config) ==
    IF config.enable_pytest_asyncio
    THEN set_tool_value(doc, "pytest", "ini_options", "asyncio_mode", "auto")
    ELSE doc

\* 5. Add tool.bandit
edit_bandit(doc, config) ==
    IF ~config.enable_bandit THEN doc
    ELSE LET doc1 == ensure_table(doc, "tool")
             tool == get(doc1, "tool")
         IN  IF ~as_table(tool) THEN doc1
             ELSE LET tool1 == ensure_table(set_implicit(tool), "bandit")
                      bandit == get(tool1, "bandit")
                      bandit1 ==
                          IF as_table(bandit)
                          THEN extend_array_entry(
                                   extend_array_entry(bandit, "skips", <<"B101">>),
                                   "exclude_dirs", <<".venv", "venv", "tests">>)
                          ELSE bandit
                  IN  set(doc1, "tool", set(tool1, "bandit", bandit1))

\* the five edits in their order
apply_edits(doc, config) ==
    edit_bandit(
        edit_pytest_asyncio(
            edit_hatch_version(
                edit_build_requires(
                    edit_dynamic_version(doc, config), config), config), config), config)

\* a file of the file system: its lines and whether it can be read, written
\* [ok, text]: the Result and the lines of the file afterwards
modify_pyproject_toml(file, config) ==
    IF ~file.readable THEN [ok |-> FALSE, text |-> file.text]
    ELSE LET parsed == Parse(file.text) IN
         IF ~parsed.ok THEN [ok |-> FALSE, text |-> file.text]
         ELSE IF ~file.writable THEN [ok |-> FALSE, text |-> file.text]
         ELSE [ok |-> TRUE, text |-> Render(apply_edits(parsed.doc, config))]

\* the detector with as_table_like in place of as_table: an inline table
\* counts as a table
has_project_dynamic_table_like(file) ==
    IF ~file.readable THEN "err"
    ELSE LET parsed == Parse(file.text) IN
         IF ~parsed.ok THEN "err"
         ELSE IF /\ contains_key(parsed.doc, "project")
                 /\ \/ /\ as_table(get(parsed.doc, "project"))
                       /\ contains_key(get(parsed.doc, "project"), "dynamic")
                    \/ /\ get(parsed.doc, "project").t = "inl"
                       /\ Contains(get(parsed.doc, "project").el, "dynamic")
              THEN "true"
              ELSE "false"

\* "true", "false" or "err"
has_project_dynamic(file) ==
    IF ~file.readable THEN "err"
    ELSE LET parsed == Parse(file.text) IN
         IF ~parsed.ok THEN "err"
         ELSE IF /\ contains_key(parsed.doc, "project")
                 /\ as_table(get(parsed.doc, "project"))
                 /\ contains_key(get(parsed.doc, "project"), "dynamic")
              THEN "true"
              ELSE "false"

(***************************************************************************)
(* The manifests and settings the transformer and the detector are run on. *)
(***************************************************************************)
ProjectKeys == {"name", "version", "dynamic", "description"}

\* the sequences without repetition of at most n of the keys
RECURSIVE KeySeqs(_)
KeySeqs(n) ==
    IF n = 0 THEN {<<>>}
    ELSE LET shorter == KeySeqs(n - 1)
         IN  shorter \cup {Append(ks, k) : ks \in shorter, k \in ProjectKeys}

Injective(ks) == \A i, j \in 1..Len(ks) : ks[i] = ks[j] => i = j

DynamicValues == {<<"version">>, <<"version", "description">>}

ProjectValue(key, dyn) ==
    IF key = "dynamic" THEN Arr(dyn)
    ELSE IF key = "version" THEN Str("0.1.0")
    ELSE IF key = "name" THEN Str("test-project")
    ELSE Str("A test project")

\* the lines of the keys; `commented` puts a comment in front of version
RECURSIVE ProjectLines(_, _, _)
ProjectLines(ks, dyn, commented) ==
    IF ks = <<>> THEN <<>>
    ELSE (IF commented /\ Head(ks) = "version" THEN <<Trivia>> ELSE <<>>)
         \o <<KV(Head(ks), ProjectValue(Head(ks), dyn))>>
         \o ProjectLines(Tail(ks), dyn, commented)

ProjectSections ==
    {<<>>} \cup
    {<<Hdr(<<"project">>)>> \o ProjectLines(ks, dyn, commented) :
        ks \in {x \in KeySeqs(MaxKeys) : Injective(x)},
        dyn \in DynamicValues,
        commented \in BOOLEAN}

DefaultProject ==
    <<Hdr(<<"project">>)>> \o ProjectLines(<<"name", "version", "description">>, <<>>, FALSE)

BuildSections ==
    { <<>>,
      <<Hdr(<<"build-system">>), KV("requires", Arr(<<"hatchling">>)),
        KV("build-backend", Str("hatchling.build"))>>,
      <<Trivia, Hdr(<<"build-system">>), KV("requires", Arr(<<"hatchling", "hatch-vcs">>)),
        KV("build-backend", Str("hatchling.build"))>>,
      <<Hdr(<<"build-system">>), KV("build-backend", Str("hatchling.build"))>>,
      <<Hdr(<<"build-system">>), KV("requires", Str("hatchling"))>> }

DefaultBuild ==
    <<Trivia, Hdr(<<"build-system">>), KV("requires", Arr(<<"hatchling">>)),
      KV("build-backend", Str("hatchling.build"))>>

ToolSections ==
    { <<>>,
      <<Trivia, Hdr(<<"tool", "hatch", "version">>), KV("source", Str("vcs"))>>,
      <<Hdr(<<"tool", "hatch", "version">>), Trivia, KV("source", Str("code"))>>,
      <<Hdr(<<"tool", "hatch">>), KV("version", Str("1"))>>,
      <<Hdr(<<"tool">>), KV("hatch", Str("x"))>>,
      <<Hdr(<<"tool">>), Hdr(<<"tool", "ruff">>), KV("line-length", Str("100"))>>,
      <<Hdr(<<"tool", "bandit">>), KV("skips", Arr(<<"B101">>)),
        KV("exclude_dirs", Arr(<<"tests">>))>>,
      <<Hdr(<<"tool", "bandit">>), KV("skips", Str("B101"))>>,
      <<Hdr(<<"tool", "pytest", "ini_options">>), KV("asyncio_mode", Str("strict")), Trivia>> }

\* values of the root table, in front of the first header
RootValues ==
    { <<KV("project", Str("x"))>>,
      <<KV("project", Inl(<<"name", "dynamic">>))>>,
      <<KV("tool", Str("x"))>>,
      <<KV("build-system", Str("x")), KV("name", Str("x"))>> }

\* arrays that list a string twice
RepeatedEntries ==
    <<Hdr(<<"build-system">>), KV("requires", Arr(<<"hatch-vcs", "hatchling", "hatch-vcs">>)),
      Hdr(<<"tool", "bandit">>), KV("skips", Arr(<<"B101", "B101">>)),
      KV("exclude_dirs", Arr(<<"venv", "tests", "venv">>))>>

Texts ==
    {p \o DefaultBuild : p \in ProjectSections}
    \cup {DefaultProject \o b \o t : b \in BuildSections, t \in ToolSections}
    \cup {t \o DefaultProject : t \in ToolSections}
    \cup {r \o DefaultBuild : r \in RootValues}
    \cup { <<Bad>>,
           DefaultProject \o <<Bad>>,
           DefaultProject \o DefaultProject,
           <<Hdr(<<"project">>), KV("name", Str("a")), KV("name", Str("b"))>>,
           <<KV("tool", Str("x")), Hdr(<<"tool", "hatch">>)>>,
           <<Hdr(<<"project">>), KV("name", Str("a")),
             Hdr(<<"project", "urls">>), KV("dynamic", Str("x"))>>,
           <<Hdr(<<"project", "urls">>), KV("home", Str("x")),
             Hdr(<<"project">>), KV("version", Str("0.1.0")), KV("name", Str("a"))>>,
           DefaultProject \o RepeatedEntries }

AdditionalRequires ==
    { <<>>, <<"setuptools-scm">>, <<"hatch-vcs", "setuptools-scm", "setuptools-scm">> }

Configs ==
    [ enable_dynamic_version : BOOLEAN, add_hatch_vcs : BOOLEAN,
      enable_pytest_asyncio : BOOLEAN, enable_bandit : BOOLEAN,
      additional_requires : AdditionalRequires, skip_dirs : {<<".git", ".venv">>} ]

(***************************************************************************)
(* The file system under the root of the walk: the root holds the file     *)
(* f_root and the directory a, a holds f_a and the directory c, c holds    *)
(* f_c.                                                                    *)
(***************************************************************************)
SubDirs == {"a", "c"}
Slots == {"f_root", "f_a", "f_c"}

Entries(dir) ==
    IF dir = "root" THEN <<"f_root", "a">>
    ELSE IF dir = "a" THEN <<"f_a", "c">>
    ELSE <<"f_c">>

\* a file name that is not UTF-8: OsStr::to_str gives None for it
NonUtf8Names == {"caf\\xE9"}

to_str_is_some(name) == name \notin NonUtf8Names

ManifestName == "pyproject.toml"

default_skip_dirs ==
    <<".git", ".venv", "venv", "__pycache__", ".pytest_cache", "node_modules",
      ".tox", "build", "dist", ".eggs", "target">>

\* the two flags of the tool edits, true unless the settings say otherwise
default_tool_flags == [enable_pytest_asyncio |-> TRUE, enable_bandit |-> TRUE]

\* UvinitConfig::default()
DefaultConfig ==
    [ skip_dirs |-> default_skip_dirs, add_hatch_vcs |-> TRUE,
      enable_dynamic_version |-> TRUE, additional_requires |-> <<>>,
      enable_pytest_asyncio |-> default_tool_flags.enable_pytest_asyncio,
      enable_bandit |-> default_tool_flags.enable_bandit ]

\* a settings file written by the user
CustomConfig ==
    [ skip_dirs |-> <<"subdir">>, add_hatch_vcs |-> FALSE,
      enable_dynamic_version |-> TRUE, additional_requires |-> <<"setuptools-scm">>,
      enable_pytest_asyncio |-> FALSE, enable_bandit |-> FALSE ]

\* read_dir whose error is dropped: an unreadable directory reads as empty
read_dir_ignoring_errors(fsys, dir) == TRUE

\* fs::read_dir(dir) succeeds
read_dir_ok(fsys, dir) == fsys.unreadable # dir

\* path.is_file() && path.file_name() == Some("pyproject.toml")
is_manifest(fsys, slot) == fsys.files[slot].name = ManifestName

\* the directory is walked into: its name is UTF-8 and not in skip_dirs
descends(fsys, dir, skip_dirs) ==
    /\ to_str_is_some(fsys.dirname[dir])
    /\ ~Contains(skip_dirs, fsys.dirname[dir])

Reverse(seq) == [i \in 1..Len(seq) |-> seq[Len(seq) + 1 - i]]

\* [ok, files]: the walk of one directory; `rev` is the order read_dir
\* yields the entries in
RECURSIVE find_pyproject_files_recursive(_, _, _, _, _)
RECURSIVE walk_entries(_, _, _, _, _)
find_pyproject_files_recursive(fsys, dir, files, skip_dirs, rev) ==
    IF dir = "root" /\ ~fsys.root_is_dir THEN [ok |-> TRUE, files |-> files]
    ELSE IF ~read_dir_ok(fsys, dir) THEN [ok |-> FALSE, files |-> files]
    ELSE walk_entries(fsys, IF rev THEN Reverse(Entries(dir)) ELSE Entries(dir),
                      files, skip_dirs, rev)

walk_entries(fsys, entries, files, skip_dirs, rev) ==
    IF entries = <<>> THEN [ok |-> TRUE, files |-> files]
    ELSE LET entry == Head(entries) IN
         IF entry \in Slots
         THEN walk_entries(fsys, Tail(entries),
                           IF is_manifest(fsys, entry) THEN Append(files, entry) ELSE files,
                           skip_dirs, rev)
         ELSE IF descends(fsys, entry, skip_dirs)
         THEN LET sub == find_pyproject_files_recursive(fsys, entry, files, skip_dirs, rev)
              IN  IF sub.ok THEN walk_entries(fsys, Tail(entries), sub.files, skip_dirs, rev)
                  ELSE sub
         ELSE walk_entries(fsys, Tail(entries), files, skip_dirs, rev)

find_pyproject_files(fsys, skip_dirs, rev) ==
    find_pyproject_files_recursive(fsys, "root", <<>>, skip_dirs, rev)

(***************************************************************************)
(* The confirmation line: a sequence of characters, without its newline.   *)
(***************************************************************************)
Chars == {"y", "Y", "n", " "}

RECURSIVE Lines(_)
Lines(n) ==
    IF n = 0 THEN {<<>>}
    ELSE LET shorter == Lines(n - 1)
         IN  shorter \cup {Append(l, c) : l \in shorter, c \in Chars}

is_whitespace(c) == c = " "

RECURSIVE trim_start(_)
trim_start(line) ==
    IF line # <<>> /\ is_whitespace(Head(line)) THEN trim_start(Tail(line)) ELSE line

RECURSIVE trim_end(_)
trim_end(line) ==
    IF line # <<>> /\ is_whitespace(line[Len(line)])
    THEN trim_end(SubSeq(line, 1, Len(line) - 1))
    ELSE line

trim(line) == trim_end(trim_start(line))

to_lowercase(line) == [i \in 1..Len(line) |-> IF line[i] = "Y" THEN "y" ELSE line[i]]

starts_with(line, c) == line # <<>> /\ Head(line) = c

\* contains('y') in place of starts_with('y')
confirmed_contains(line) == Contains(to_lowercase(trim(line)), "y")

\* input.trim().to_lowercase().starts_with('y')
confirmed(line) == starts_with(to_lowercase(trim(line)), "y")

\* what was read from the standard input: nothing yet, a line, or an error
NoInput == [kind |-> "none", line |-> <<>>]
InputError == [kind |-> "error", line |-> <<>>]
InputLine(line) == [kind |-> "line", line |-> line]

(***************************************************************************)
(* The files of the walked tree.                                           *)
(***************************************************************************)
VersionText == DefaultProject \o DefaultBuild

DynamicText ==
    <<Hdr(<<"project">>), KV("name", Str("test-project")),
      KV("dynamic", Arr(<<"version", "description">>))>>

OtherFile == [name |-> "setup.py", text |-> <<>>, readable |-> TRUE, writable |-> TRUE]

Manifest(text, readable, writable) ==
    [name |-> ManifestName, text |-> text, readable |-> readable, writable |-> writable]

\* what each slot may hold
FileKinds(slot) ==
    {OtherFile, Manifest(VersionText, TRUE, TRUE)}
    \cup (IF slot = "f_c" THEN {Manifest(<<Bad>>, TRUE, TRUE)}
          ELSE {Manifest(VersionText, TRUE, FALSE), Manifest(DynamicText, TRUE, TRUE)})
    \cup (IF slot = "f_root"
          THEN {Manifest(<<Bad>>, TRUE, TRUE), Manifest(VersionText, FALSE, TRUE)}
          ELSE {})

DirNames(dir) ==
    IF dir = "a" THEN {"subdir", ".git"} \cup NonUtf8Names ELSE {"nested", ".venv"}

NoFileSystem ==
    [ root_is_dir |-> FALSE, dirname |-> [d \in SubDirs |-> "subdir"], unreadable |-> "none",
      files |-> [f \in Slots |-> OtherFile] ]

\* a root that is no directory has nothing under it
FileSystems ==
    {NoFileSystem} \cup
    { [root_is_dir |-> TRUE, dirname |-> dn, unreadable |-> u, files |-> fl] :
        dn \in {d \in [SubDirs -> UNION {DirNames(x) : x \in SubDirs}] :
                    \A x \in SubDirs : d[x] \in DirNames(x)},
        u \in {"none", "root", "a", "c"},
        fl \in {f \in [Slots -> UNION {FileKinds(x) : x \in Slots}] :
                    \A x \in Slots : f[x] \in FileKinds(x)} }

(***************************************************************************)
(* State: the transformer and the detector on one file (file, config,      *)
(* runs, history, results, detected), and one run of post-init uvinit.     *)
(***************************************************************************)
VARIABLES file, config, runs, history, results, detected,
          fs, fs0, config_file, yes, pc, result, uvinit_config, pyproject_files,
          checked, files_to_process, input, stdin_reads, applied, walk

tvars == <<file, config, runs, history, results, detected>>

rvars == <<fs, fs0, config_file, yes, pc, result, uvinit_config, pyproject_files,
           checked, files_to_process, input, stdin_reads, applied, walk>>

vars == <<tvars, rvars>>

NoFile == [text |-> <<>>, readable |-> TRUE, writable |-> TRUE]

\* no transformer state: the specification of the run leaves it alone
TIdle ==
    /\ file = NoFile
    /\ config = DefaultConfig
    /\ runs = 0
    /\ history = <<>>
    /\ results = <<>>
    /\ detected = "none"

\* no run: the specification of the transformer leaves it alone
RIdle ==
    /\ fs = NoFileSystem
    /\ fs0 = NoFileSystem
    /\ config_file = "absent"
    /\ yes = FALSE
    /\ pc = "idle"
    /\ result = "none"
    /\ uvinit_config = DefaultConfig
    /\ pyproject_files = <<>>
    /\ checked = <<>>
    /\ files_to_process = <<>>
    /\ input = NoInput
    /\ stdin_reads = 0
    /\ applied = <<>>
    /\ walk = "none"

(***************************************************************************)
(* The transformer and the detector on one file.                           *)
(***************************************************************************)
TInit ==
    /\ file \in [text : Texts, readable : {TRUE}, writable : {TRUE}]
    /\ config \in Configs
    /\ runs = 0
    /\ history = <<file.text>>
    /\ results = <<>>
    /\ detected = "none"
    /\ RIdle

\* modify_pyproject_toml(file, config)
Transform ==
    /\ runs < MaxRuns
    /\ LET r == modify_pyproject_toml(file, config) IN
       /\ file' = [file EXCEPT !.text = r.text]
       /\ history' = Append(history, r.text)
       /\ results' = Append(results, r.ok)
    /\ runs' = runs + 1
    /\ detected' = "none"
    /\ UNCHANGED <<config, rvars>>

\* has_project_dynamic(file)
Detect ==
    /\ detected = "none"
    /\ detected' = has_project_dynamic(file)
    /\ UNCHANGED <<file, config, runs, history, results, rvars>>

TNext == Transform \/ Detect

SpecTransform == TInit /\ [][TNext]_vars

(***************************************************************************)
(* One run of `post-init uvinit`: main and run_uvinit.                     *)
(***************************************************************************)
Init ==
    /\ fs \in FileSystems
    /\ fs0 = fs
    /\ config_file \in {"absent", "custom", "invalid"}
    /\ yes \in BOOLEAN
    /\ pc = "load_config"
    /\ result = "none"
    /\ uvinit_config = DefaultConfig
    /\ pyproject_files = <<>>
    /\ checked = <<>>
    /\ files_to_process = <<>>
    /\ input = NoInput
    /\ stdin_reads = 0
    /\ applied = <<>>
    /\ walk = "none"
    /\ TIdle

\* run_uvinit returns: Ok(()) or Err
Return(r) ==
    /\ pc' = "returned"
    /\ result' = r

\* load_config: a missing settings file is created with the defaults, one
\* that does not parse is an error
LoadConfig ==
    /\ pc = "load_config"
    /\ \/ /\ config_file = "absent"
          /\ \E saved \in BOOLEAN :
                IF saved
                THEN /\ config_file' = "default"
                     /\ uvinit_config' = DefaultConfig
                     /\ pc' = "discover"
                     /\ UNCHANGED result
                ELSE /\ Return("Err")
                     /\ UNCHANGED <<config_file, uvinit_config>>
       \/ /\ config_file = "custom"
          /\ uvinit_config' = CustomConfig
          /\ pc' = "discover"
          /\ UNCHANGED <<config_file, result>>
       \/ /\ config_file = "invalid"
          /\ Return("Err")
          /\ UNCHANGED <<config_file, uvinit_config>>
    /\ UNCHANGED <<fs, fs0, yes, pyproject_files, checked, files_to_process, input,
                   stdin_reads, applied, walk, tvars>>

\* find_pyproject_files(path, &skip_dirs)?, then the return when nothing was
\* found
Discover ==
    /\ pc = "discover"
    /\ \E rev \in BOOLEAN :
          LET found == find_pyproject_files(fs, uvinit_config.skip_dirs, rev) IN
          IF ~found.ok
          THEN Return("Err") /\ walk' = "Err" /\ UNCHANGED pyproject_files
          ELSE /\ pyproject_files' = found.files
               /\ walk' = "Ok"
               /\ IF found.files = <<>>
                  THEN Return("Ok")
                  ELSE pc' = "filter" /\ UNCHANGED result
    /\ UNCHANGED <<fs, fs0, config_file, yes, uvinit_config, checked, files_to_process,
                   input, stdin_reads, applied, tvars>>

\* the arms Ok(false) and Err(_) taken together
needs_processing_or_error(res) == res # "true"

\* the arm Ok(false) of the match on has_project_dynamic
needs_processing(res) == res = "false"

\* one turn of the loop over pyproject_files
CheckFile ==
    /\ pc = "filter"
    /\ Len(checked) < Len(pyproject_files)
    /\ LET file_path == pyproject_files[Len(checked) + 1]
           res == has_project_dynamic(fs.files[file_path])
       IN  /\ checked' = Append(checked, [file |-> file_path, res |-> res])
           /\ files_to_process' =
                 IF needs_processing(res) THEN Append(files_to_process, file_path)
                 ELSE files_to_process
    /\ UNCHANGED <<fs, fs0, config_file, yes, pc, result, uvinit_config, pyproject_files,
                   input, stdin_reads, applied, walk, tvars>>

\* after the loop: the return when nothing needs processing, else on to the
\* prompt or, with --yes, to the processing
EndFilter ==
    /\ pc = "filter"
    /\ Len(checked) = Len(pyproject_files)
    /\ IF files_to_process = <<>>
       THEN Return("Ok")
       ELSE /\ pc' = IF yes THEN "apply" ELSE "confirm"
            /\ UNCHANGED result
    /\ UNCHANGED <<fs, fs0, config_file, yes, uvinit_config, pyproject_files, checked,
                   files_to_process, input, stdin_reads, applied, walk, tvars>>

\* stdin().read_line(&mut input)?: a line (empty at the end of the input) or
\* an error
Confirm ==
    /\ pc = "confirm"
    /\ stdin_reads' = stdin_reads + 1
    /\ \/ /\ input' = InputError
          /\ Return("Err")
       \/ \E line \in Lines(MaxInputLen) :
             /\ input' = InputLine(line)
             /\ IF confirmed(line)
                THEN pc' = "apply" /\ UNCHANGED result
                ELSE Return("Ok")
    /\ UNCHANGED <<fs, fs0, config_file, yes, uvinit_config, pyproject_files, checked,
                   files_to_process, applied, walk, tvars>>

\* the loop with `?` on the transformer's result: the first failure returns
ApplyFile_question_mark ==
    /\ pc = "apply"
    /\ Len(applied) < Len(files_to_process)
    /\ LET file_path == files_to_process[Len(applied) + 1]
           r == modify_pyproject_toml(fs.files[file_path], uvinit_config)
       IN  /\ fs' = [fs EXCEPT !.files[file_path].text = r.text]
           /\ applied' = Append(applied, [file |-> file_path, ok |-> r.ok])
           /\ IF r.ok THEN UNCHANGED <<pc, result>> ELSE Return("Err")
    /\ UNCHANGED <<fs0, config_file, yes, uvinit_config, pyproject_files,
                   checked, files_to_process, input, stdin_reads, walk, tvars>>

\* one turn of the loop over files_to_process
ApplyFile ==
    /\ pc = "apply"
    /\ Len(applied) < Len(files_to_process)
    /\ LET file_path == files_to_process[Len(applied) + 1]
           r == modify_pyproject_toml(fs.files[file_path], uvinit_config)
       IN  /\ fs' = [fs EXCEPT !.files[file_path].text = r.text]
           /\ applied' = Append(applied, [file |-> file_path, ok |-> r.ok])
    /\ UNCHANGED <<fs0, config_file, yes, pc, result, uvinit_config, pyproject_files,
                   checked, files_to_process, input, stdin_reads, walk, tvars>>

\* after the loop: Ok(())
Finish ==
    /\ pc = "apply"
    /\ Len(applied) = Len(files_to_process)
    /\ Return("Ok")
    /\ UNCHANGED <<fs, fs0, config_file, yes, uvinit_config, pyproject_files, checked,
                   files_to_process, input, stdin_reads, applied, walk, tvars>>

\* main: the exit status of the process
ExitStatus == IF result = "Err" THEN 1 ELSE 0

Next ==
    \/ LoadConfig
    \/ Discover
    \/ CheckFile
    \/ EndFilter
    \/ Confirm
    \/ ApplyFile
    \/ Finish

Spec == Init /\ [][Next]_vars

(***************************************************************************)
(* Properties of the transformer and the detector (SpecTransform).         *)
(***************************************************************************)
Parsable(text) == Parse(text).ok

HasProjectTable(text) ==
    /\ Parsable(text)
    /\ contains_key(Parse(text).doc, "project")
    /\ as_table(get(Parse(text).doc, "project"))

ProjectTable(text) == get(Parse(text).doc, "project")

\* C1: the second run of the transformer with enable_dynamic_version leaves
\* the file as the first run left it: same keys, same values, same key order
C1_Idempotent ==
    (config.enable_dynamic_version /\ runs >= 2) => history[3] = history[2]

\* the lines of the text give the section [project] a key dynamic: a line
\* `dynamic = ..` after the header [project] and before the next header
ProjectSectionHasDynamic(text) ==
    \E i, j \in 1..Len(text) :
        /\ i < j
        /\ text[i] = Hdr(<<"project">>)
        /\ text[j].h = "kv" /\ text[j].k = "dynamic"
        /\ \A m \in (i + 1)..(j - 1) : text[m].h # "hdr"

\* C3: on a manifest that parses, has_project_dynamic is true exactly when
\* the top-level project is a table that has a key dynamic, whatever its
\* value, and false otherwise
C3_Detector ==
    (detected # "none" /\ Parsable(file.text)) =>
        /\ detected \in {"true", "false"}
        /\ detected = "true" <=> ProjectSectionHasDynamic(file.text)

\* the detector said true of a dynamic that lists more than version
C3_Witness ==
    /\ detected = "true"
    /\ runs = 0
    /\ HasProjectTable(file.text)
    /\ get(ProjectTable(file.text), "dynamic").el = <<"version", "description">>

AllDisabled(cfg) ==
    /\ ~cfg.enable_dynamic_version
    /\ ~cfg.add_hatch_vcs
    /\ ~cfg.enable_pytest_asyncio
    /\ ~cfg.enable_bandit
    /\ cfg.additional_requires = <<>>

VersionNoDynamic(text) ==
    /\ HasProjectTable(text)
    /\ contains_key(ProjectTable(text), "version")
    /\ ~contains_key(ProjectTable(text), "dynamic")

\* C10: a project table with version and without dynamic has, after the
\* transformer ran with enable_dynamic_version, dynamic = ["version"] where
\* version was, no version, and its other keys with their values in their
\* order
C10_Migration ==
    (config.enable_dynamic_version /\ runs >= 1 /\ VersionNoDynamic(history[1])) =>
        /\ results[1]
        /\ HasProjectTable(history[2])
        /\ LET old == ProjectTable(history[1])
               new == ProjectTable(history[2])
           IN  /\ ~contains_key(new, "version")
               /\ contains_key(new, "dynamic")
               /\ get(new, "dynamic") = Arr(<<"version">>)
               /\ IndexOf(new, "dynamic") = IndexOf(old, "version")
               /\ Len(new.kv) = Len(old.kv)
               /\ \A i \in 1..Len(old.kv) :
                     old.kv[i].k # "version" => new.kv[i] = old.kv[i]

\* the transformer migrated a version that stood between two other keys
C10_Witness ==
    /\ config.enable_dynamic_version
    /\ runs = 1
    /\ VersionNoDynamic(history[1])
    /\ IndexOf(ProjectTable(history[1]), "version") = 2
    /\ Len(ProjectTable(history[1]).kv) = 3
    /\ IndexOf(ProjectTable(history[2]), "dynamic") = 2

(***************************************************************************)
(* Properties of the run (Spec).                                           *)
(***************************************************************************)
\* the directories between the root and a slot, the root left out
DirsAbove(slot) ==
    IF slot = "f_root" THEN {} ELSE IF slot = "f_a" THEN {"a"} ELSE {"a", "c"}

\* the manifests outside every directory named in the exclusion list
ExpectedManifests ==
    IF ~fs0.root_is_dir THEN {}
    ELSE {slot \in Slots :
            /\ fs0.files[slot].name = "pyproject.toml"
            /\ \A d \in DirsAbove(slot) : ~Contains(uvinit_config.skip_dirs, fs0.dirname[d])}

Range(seq) == {seq[i] : i \in 1..Len(seq)}

NoDuplicates(seq) == \A i, j \in 1..Len(seq) : seq[i] = seq[j] => i = j

\* C2: a walk that succeeds returns exactly the files named pyproject.toml
\* that are in no directory named in the exclusion list, each once
C2_WalkExact ==
    walk = "Ok" =>
        /\ Range(pyproject_files) = ExpectedManifests
        /\ NoDuplicates(pyproject_files)

SomeFileFailed == \E i \in 1..Len(applied) : ~applied[i].ok

\* C4: a run in which the transformer failed on a queued file ends in
\* failure
C4_StatusReflectsFailures ==
    (pc = "returned" /\ SomeFileFailed) => ExitStatus # 0

CheckedAs(slot, res) ==
    \E j \in 1..Len(checked) : checked[j].file = slot /\ checked[j].res = res

Applied(slot) == \E i \in 1..Len(applied) : applied[i].file = slot

RECURSIVE FilesCheckedFalse(_)
FilesCheckedFalse(log) ==
    IF log = <<>> THEN <<>>
    ELSE (IF Head(log).res = "false" THEN <<Head(log).file>> ELSE <<>>)
         \o FilesCheckedFalse(Tail(log))

\* C5: the transformer is given only files the detector said false of; a
\* file it said true of, or failed on, is never given to it nor written; and
\* the queue holds every file it said false of
C5_OnlyDetectedFalse ==
    /\ \A slot \in Slots : Applied(slot) => CheckedAs(slot, "false")
    /\ \A slot \in Slots :
          ~CheckedAs(slot, "false") => ~Applied(slot) /\ fs.files[slot] = fs0.files[slot]
    /\ files_to_process = FilesCheckedFalse(checked)

\* a finished run that skipped a compliant file, dropped a file the detector
\* failed on, and transformed a third
C5_Witness ==
    /\ pc = "returned"
    /\ \E slot \in Slots : CheckedAs(slot, "true") /\ ~Applied(slot)
    /\ \E slot \in Slots : CheckedAs(slot, "err") /\ ~Applied(slot)
    /\ \E i \in 1..Len(applied) : applied[i].ok

\* C6: the transformer is run on the queued files in queue order, once each;
\* once one file was processed the run ends only after all were; and what
\* happens to a file is what the transformer does to that file alone
C6_FailSoft ==
    /\ Len(applied) <= Len(files_to_process)
    /\ \A i \in 1..Len(applied) :
          /\ applied[i].file = files_to_process[i]
          /\ LET alone == modify_pyproject_toml(fs0.files[applied[i].file], uvinit_config)
             IN  /\ applied[i].ok = alone.ok
                 /\ fs.files[applied[i].file].text = alone.text
    /\ NoDuplicates(files_to_process)
    /\ (pc = "returned" /\ applied # <<>>) => Len(applied) = Len(files_to_process)

\* the first queued file failed and the second was transformed
C6_Witness ==
    /\ pc = "returned"
    /\ Len(applied) >= 2
    /\ ~applied[1].ok
    /\ applied[2].ok
    /\ fs.files[applied[2].file] # fs0.files[applied[2].file]

\* the directories the walk reads: the root, and a directory under a
\* directory it reads unless its name is excluded or is not UTF-8
Reached(dir) ==
    /\ fs0.root_is_dir
    /\ \A d \in (IF dir = "root" THEN {} ELSE IF dir = "a" THEN {"a"} ELSE {"a", "c"}) :
          /\ fs0.dirname[d] \notin NonUtf8Names
          /\ ~Contains(uvinit_config.skip_dirs, fs0.dirname[d])

UnreadableReached == fs0.unreadable # "none" /\ Reached(fs0.unreadable)

\* C7: when a directory the walk reaches cannot be read, the walk fails, the
\* run returns the error, and no file was checked, transformed or changed
C7_FailFast ==
    /\ (walk # "none" /\ UnreadableReached) => walk = "Err"
    /\ walk = "Err" =>
          /\ pc = "returned" /\ result = "Err"
          /\ checked = <<>> /\ applied = <<>>
          /\ stdin_reads = 0
          /\ fs = fs0

\* the walk failed in the directory c after the root's manifest was found
C7_Witness ==
    /\ walk = "Err"
    /\ fs0.unreadable = "c"
    /\ fs0.files["f_root"].name = "pyproject.toml"
    /\ fs0.files["f_root"].writable

IsLine(x) == x.kind = "line"

BeginsWithY(line) == line # <<>> /\ line[1] \in {"y", "Y"}

\* the first character that is no blank is y or Y
RECURSIVE BeginsWithYAfterBlanks(_)
BeginsWithYAfterBlanks(line) ==
    /\ line # <<>>
    /\ IF line[1] = " " THEN BeginsWithYAfterBlanks(Tail(line)) ELSE line[1] \in {"y", "Y"}

FilterDone == walk = "Ok" /\ pc # "filter" /\ files_to_process # <<>>

NothingTransformed == applied = <<>> /\ fs = fs0

\* without --yes one line is read before the processing; with --yes none is
\* read and the processing goes ahead
C8_Prompt ==
    /\ stdin_reads <= 1
    /\ (~yes /\ FilterDone /\ pc # "confirm") => stdin_reads = 1 /\ input # NoInput
    /\ (pc = "apply" /\ ~yes) => IsLine(input)
    /\ yes => stdin_reads = 0 /\ input = NoInput /\ pc # "confirm"
    /\ (yes /\ FilterDone /\ pc = "returned") =>
          result = "Ok" /\ Len(applied) = Len(files_to_process)

\* C8 as stated: a line that does not begin with y or Y ends the run without
\* error and with no file transformed
C8_AsStated ==
    /\ C8_Prompt
    /\ (IsLine(input) /\ ~BeginsWithY(input.line)) =>
          pc = "returned" /\ result = "Ok" /\ NothingTransformed

\* C8: the same of a line read whose first character after leading blanks
\* is not y or Y
C8_ConfirmationGate ==
    /\ C8_Prompt
    /\ (IsLine(input) /\ ~BeginsWithYAfterBlanks(input.line)) =>
          pc = "returned" /\ result = "Ok" /\ NothingTransformed

\* a line of a blank and an n was read and the run ended with the queued
\* file as it was
C8_Witness ==
    /\ ~yes
    /\ input = InputLine(<<" ", "n">>)
    /\ pc = "returned"
    /\ result = "Ok"
    /\ files_to_process # <<>>
    /\ NothingTransformed

(***************************************************************************)
(* Properties of the edits 1, 2, 3 and 5 of the transformer                *)
(* (SpecTransform), read off the file before and after the first run.      *)
(***************************************************************************)
\* every step of the path is a table of the document
RECURSIVE IsTablePath(_, _)
IsTablePath(tbl, path) ==
    IF path = <<>> THEN TRUE
    ELSE /\ contains_key(tbl, Head(path))
         /\ as_table(get(tbl, Head(path)))
         /\ IsTablePath(get(tbl, Head(path)), Tail(path))

HasTable(text, path) == Parsable(text) /\ IsTablePath(Parse(text).doc, path)

\* the text has the array `key` in the table at `path`
HasArray(text, path, key) ==
    /\ HasTable(text, path)
    /\ contains_key(TableAt(Parse(text).doc, path), key)
    /\ as_array(get(TableAt(Parse(text).doc, path), key))

\* its entries
ArrayOf(text, path, key) == get(TableAt(Parse(text).doc, path), key).el

\* the strings of a sequence, each at its first occurrence
RECURSIVE FirstOccurrences(_)
FirstOccurrences(seq) ==
    IF seq = <<>> THEN <<>>
    ELSE LET front == FirstOccurrences(SubSeq(seq, 1, Len(seq) - 1))
             last == seq[Len(seq)]
         IN  IF Contains(front, last) THEN front ELSE Append(front, last)

\* ["hatch-vcs" if add_hatch_vcs] ++ additional_requires
ConfiguredRequires(cfg) ==
    (IF cfg.add_hatch_vcs THEN <<"hatch-vcs">> ELSE <<>>) \o cfg.additional_requires

\* C11: when build-system is a table whose requires is an array, the
\* transformer succeeds and requires is afterwards its entries as they were,
\* in their order, followed by the strings of ["hatch-vcs" if add_hatch_vcs]
\* ++ additional_requires that were not among them, in that order
C11_Augmentation ==
    (runs >= 1 /\ HasArray(history[1], <<"build-system">>, "requires")) =>
        /\ results[1]
        /\ HasArray(history[2], <<"build-system">>, "requires")
        /\ LET old == ArrayOf(history[1], <<"build-system">>, "requires")
           IN  ArrayOf(history[2], <<"build-system">>, "requires") =
                   old \o SelectSeq(FirstOccurrences(ConfiguredRequires(config)),
                                    LAMBDA req : ~Contains(old, req))

\* requires = [hatchling] was transformed with add_hatch_vcs and
\* additional_requires = [setuptools-scm]
C11_Witness ==
    /\ runs = 1
    /\ config.add_hatch_vcs
    /\ config.additional_requires = <<"setuptools-scm">>
    /\ HasArray(history[1], <<"build-system">>, "requires")
    /\ ArrayOf(history[1], <<"build-system">>, "requires") = <<"hatchling">>
    /\ ArrayOf(history[2], <<"build-system">>, "requires") =
           <<"hatchling", "hatch-vcs", "setuptools-scm">>

Count(seq, x) == Cardinality({i \in 1..Len(seq) : seq[i] = x})

\* every step of the path is absent from the document or a table of it
RECURSIVE AbsentOrTablePath(_, _)
AbsentOrTablePath(tbl, path) ==
    IF path = <<>> \/ ~contains_key(tbl, Head(path)) THEN TRUE
    ELSE /\ as_table(get(tbl, Head(path)))
         /\ AbsentOrTablePath(get(tbl, Head(path)), Tail(path))

\* the table at `path` has no entry `key`, or an array
AbsentOrArray(text, path, key) ==
    HasTable(text, path) /\ contains_key(TableAt(Parse(text).doc, path), key)
        => as_array(get(TableAt(Parse(text).doc, path), key))

EntriesBefore(text, path, key) ==
    IF HasArray(text, path, key) THEN ArrayOf(text, path, key) ELSE <<>>

\* the array `key` of the table at `path` after the first run: each of the
\* strings occurs as often as before if it was there and once if it was not,
\* and the array grew by the strings that were not there
NoDuplication(path, key, strings) ==
    /\ results[1]
    /\ HasArray(history[2], path, key)
    /\ LET old == EntriesBefore(history[1], path, key)
           new == ArrayOf(history[2], path, key)
       IN  /\ \A str \in Range(strings) :
                 Count(new, str) = IF Count(old, str) > 0 THEN Count(old, str) ELSE 1
           /\ Len(new) = Len(old) + Cardinality({str \in Range(strings) : Count(old, str) = 0})

\* C12: a string that is in build-system.requires, tool.bandit.skips or
\* tool.bandit.exclude_dirs is not appended again, and a string that is not
\* is appended once, also when additional_requires lists it twice
C12_NoDuplication ==
    /\ ( /\ runs >= 1
         /\ config.add_hatch_vcs \/ config.additional_requires # <<>>
         /\ HasTable(history[1], <<"build-system">>)
         /\ AbsentOrArray(history[1], <<"build-system">>, "requires") )
          => NoDuplication(<<"build-system">>, "requires", ConfiguredRequires(config))
    /\ ( /\ runs >= 1
         /\ config.enable_bandit
         /\ Parsable(history[1])
         /\ AbsentOrTablePath(Parse(history[1]).doc, <<"tool", "bandit">>)
         /\ AbsentOrArray(history[1], <<"tool", "bandit">>, "skips") )
          => NoDuplication(<<"tool", "bandit">>, "skips", <<"B101">>)
    /\ ( /\ runs >= 1
         /\ config.enable_bandit
         /\ Parsable(history[1])
         /\ AbsentOrTablePath(Parse(history[1]).doc, <<"tool", "bandit">>)
         /\ AbsentOrArray(history[1], <<"tool", "bandit">>, "exclude_dirs") )
          => NoDuplication(<<"tool", "bandit">>, "exclude_dirs", <<".venv", "venv", "tests">>)

\* arrays that listed hatch-vcs, B101 and venv twice were transformed with
\* additional_requires = [hatch-vcs, setuptools-scm, setuptools-scm] and
\* the bandit edit
C12_Witness ==
    /\ runs = 1
    /\ config.enable_bandit
    /\ config.additional_requires = <<"hatch-vcs", "setuptools-scm", "setuptools-scm">>
    /\ HasArray(history[1], <<"build-system">>, "requires")
    /\ ArrayOf(history[1], <<"build-system">>, "requires") = <<"hatch-vcs", "hatchling", "hatch-vcs">>
    /\ ArrayOf(history[2], <<"build-system">>, "requires") =
           <<"hatch-vcs", "hatchling", "hatch-vcs", "setuptools-scm">>
    /\ ArrayOf(history[2], <<"tool", "bandit">>, "skips") = <<"B101", "B101">>
    /\ ArrayOf(history[2], <<"tool", "bandit">>, "exclude_dirs") =
           <<"venv", "tests", "venv", ".venv">>

\* C13: on a manifest that has no build-system table the transformer
\* succeeds, whatever the settings, and the file it writes has no
\* build-system table and no [build-system] header: requires is created
\* only in a build-system table that was there
C13_NoBuildSystemCreated ==
    (runs >= 1 /\ Parsable(history[1]) /\ ~HasTable(history[1], <<"build-system">>)) =>
        /\ results[1]
        /\ Parsable(history[2])
        /\ ~HasTable(history[2], <<"build-system">>)
        /\ ~Contains(history[2], Hdr(<<"build-system">>))
        /\ contains_key(Parse(history[2]).doc, "build-system")
              <=> contains_key(Parse(history[1]).doc, "build-system")

\* a manifest with a project table and no build-system at all was
\* transformed with add_hatch_vcs and additional requirements
C13_Witness ==
    /\ runs = 1
    /\ config.add_hatch_vcs
    /\ config.additional_requires # <<>>
    /\ HasProjectTable(history[1])
    /\ ~contains_key(Parse(history[1]).doc, "build-system")
    /\ results[1]
    /\ history[2] # history[1]
    /\ ~contains_key(Parse(history[2]).doc, "build-system")

HatchVersion == <<"tool", "hatch", "version">>

\* tool.hatch.version is a table of the text and its source is "vcs"
SourceIsVcs(text) ==
    /\ HasTable(text, HatchVersion)
    /\ contains_key(TableAt(Parse(text).doc, HatchVersion), "source")
    /\ get(TableAt(Parse(text).doc, HatchVersion), "source").t = "str"
    /\ get(TableAt(Parse(text).doc, HatchVersion), "source").s = "vcs"

\* the first run was of a manifest that parses, with enable_dynamic_version,
\* and succeeded
MigrationRan ==
    /\ runs >= 1
    /\ config.enable_dynamic_version
    /\ Parsable(history[1])
    /\ results[1]

\* C14 as stated: after a successful run with enable_dynamic_version the
\* tables tool.hatch.version exist and source is "vcs", whatever tool,
\* tool.hatch and tool.hatch.version held before
C14_AsStated == MigrationRan => SourceIsVcs(history[2])

\* C14: the same where each of tool, tool.hatch and tool.hatch.version was
\* absent or a table, a source that was there being overwritten; where one
\* of them was something else, the run succeeds all the same, the path has
\* no table afterwards either and no source is set
C14_VersionSource ==
    /\ (runs >= 1 /\ config.enable_dynamic_version /\ Parsable(history[1])) => results[1]
    /\ MigrationRan =>
          IF AbsentOrTablePath(Parse(history[1]).doc, HatchVersion)
          THEN SourceIsVcs(history[2])
          ELSE /\ Parsable(history[2])
               /\ ~HasTable(history[2], HatchVersion)
               /\ ~Contains(history[2], KV("source", Str("vcs")))

\* a [tool.hatch.version] with source = "code" was transformed and the
\* source is "vcs" now
C14_Witness ==
    /\ runs = 1
    /\ MigrationRan
    /\ HasTable(history[1], HatchVersion)
    /\ contains_key(TableAt(Parse(history[1]).doc, HatchVersion), "source")
    /\ get(TableAt(Parse(history[1]).doc, HatchVersion), "source").s = "code"
    /\ SourceIsVcs(history[2])

\* C15: a manifest with a project table has, after the transformer ran with
\* enable_dynamic_version, project.dynamic = ["version"] and no version,
\* whatever dynamic was before and whether or not there was a version
C15_DynamicReplaced ==
    (runs >= 1 /\ config.enable_dynamic_version /\ HasProjectTable(history[1])) =>
        /\ results[1]
        /\ HasProjectTable(history[2])
        /\ contains_key(ProjectTable(history[2]), "dynamic")
        /\ as_array(get(ProjectTable(history[2]), "dynamic"))
        /\ get(ProjectTable(history[2]), "dynamic").el = <<"version">>
        /\ ~contains_key(ProjectTable(history[2]), "version")

\* a project table without version whose dynamic was ["version",
\* "description"] was transformed: description is gone from dynamic
C15_Witness ==
    /\ runs = 1
    /\ config.enable_dynamic_version
    /\ HasProjectTable(history[1])
    /\ ~contains_key(ProjectTable(history[1]), "version")
    /\ contains_key(ProjectTable(history[1]), "dynamic")
    /\ get(ProjectTable(history[1]), "dynamic").el = <<"version", "description">>
    /\ get(ProjectTable(history[2]), "dynamic").el = <<"version">>

====
